---- MODULE Spec2Model ----
(***************************************************************************)
(* Vibe-Builder: the entity store (users, teams, team_members, projects,   *)
(* project_collaborators, templates, activity_logs), the row-level         *)
(* policies of the enhanced schema, and the edge-function handlers         *)
(* generate-scaffold, team-management, manage-projects and                 *)
(* template-marketplace.  Handlers connect with the service-role key, so   *)
(* the row-level policies do not filter what they read or write; the       *)
(* table constraints and triggers still apply.                             *)
(*                                                                         *)
(* Handlers whose awaited store calls matter to an interleaving            *)
(* (GenerateScaffold, CreateTeam, AcceptInvitation) are split at those     *)
(* calls; every other handler is one action.                               *)
(***************************************************************************)
EXTENDS Integers, Sequences, FiniteSets, Bags, TLC

VARIABLES
  users,                  \* public.users, one row per identity
  teams,                  \* public.teams
  team_members,           \* public.team_members
  projects,               \* public.projects
  project_collaborators,  \* public.project_collaborators
  templates,              \* public.templates
  activity_logs,          \* public.activity_logs (a bag of rows)
  usage_analytics,        \* public.usage_analytics (a bag of rows)
  nextId,                 \* source of fresh row ids and invitation tokens
  gen,                    \* GenerateScaffold requests in flight
  ct,                     \* CreateTeam requests in flight
  acc,                    \* AcceptInvitation requests in flight
  resp,                   \* the response of the handler that returned last
  accepted,               \* history: the tokens of the acceptances that succeeded
  initial_generations,    \* history: each user's monthly_generations at the start
  deleted                 \* history: the ids of the rows a delete was answered 200 for

vars == <<users, teams, team_members, projects, project_collaborators,
          templates, activity_logs, usage_analytics, nextId, gen, ct, acc,
          resp, accepted, initial_generations, deleted>>

storeVars == <<users, teams, team_members, projects, project_collaborators,
               templates, activity_logs, usage_analytics, nextId>>

\* ------------------------------------------------------------------ bounds

\* SQL NULL where a user is referenced, and where a row id or token is
NULL == "null"
NoId == 0

Users == {"u1", "u2", "u3"}

\* number of GenerateScaffold requests
NGen == 3
GenReqs == 1..NGen

\* number of CreateTeam and of AcceptInvitation requests in flight at once
NCt == 2
CtReqs == 1..NCt
NAcc == 2
AccReqs == 1..NAcc

\* cap on the fresh-id counter of SpecGen
MaxIdGen == 4

\* a member limit that leaves room for the owner and one invitation
TightLimit == 3
MaxIdSlug == 4
MaxIdProj == 6
MaxIdTmpl == 5
MaxReadsLogged == 1
MaxViews == 1

\* ------------------------------------------------------------------ enums

tech_stack ==
  {"react_typescript", "react_javascript", "nextjs", "vue_typescript",
   "vue_javascript", "angular", "svelte", "nodejs_express", "nodejs_fastify",
   "supabase", "firebase", "python_fastapi", "python_django", "go_gin",
   "rust_actix"}

subscription_tier_enhanced ==
  {"free_trial", "free", "pro_monthly", "pro_yearly", "team_monthly",
   "team_yearly", "enterprise", "enterprise_trial", "legacy", "suspended",
   "churned"}

user_role ==
  {"user", "pro_user", "team_owner", "team_admin", "team_member",
   "moderator", "admin", "super_admin"}

\* the tiers the handlers treat as paid
PaidTiers ==
  {"pro_monthly", "pro_yearly", "team_monthly", "team_yearly", "enterprise"}

\* ------------------------------------------------------------------ store

UserRow(tier, role, active, generations) ==
  [subscription_tier |-> tier, role |-> role, is_active |-> active,
   monthly_generations |-> generations, projects_generated |-> generations,
   current_team_id |-> NoId]

\* BEFORE UPDATE trigger on users: a row whose current_team_id is set must
\* belong to an active member of that team, else the statement raises.
validate_team_ownership(u, new) ==
  \/ new.current_team_id = NoId
  \/ \E tm \in team_members :
       /\ tm.team_id = new.current_team_id
       /\ tm.user_id = u
       /\ tm.status = "active"

\* supabase.from('users').update(...).eq('id', u): the row is replaced unless
\* the trigger raises; the handlers never look at this statement's error.
UpdateUser(u, new) ==
  IF validate_team_ownership(u, new) THEN [users EXCEPT ![u] = new] ELSE users

LogRow(user, team, action, resource) ==
  [user_id |-> user, team_id |-> team, action |-> action,
   resource_id |-> resource]

AddLog(logs, row) == logs (+) SetToBag({row})

\* AFTER INSERT trigger on projects
handle_project_activity(logs, p) ==
  AddLog(logs, LogRow(p.user_id, NoId, "project_created", p.id))

ProjectRow(id, owner, team, visibility, public, status) ==
  [id |-> id, user_id |-> owner, team_id |-> team, visibility |-> visibility,
   is_public |-> public, status |-> status, deleted_at |-> NULL]

\* a response: the operation answered, the HTTP status, the error message
\* ("" on success), the ids of the rows a read returns, and the numbers an
\* error body carries
Response(op, status, error, data, detail) ==
  [op |-> op, status |-> status, error |-> error, data |-> data,
   detail |-> detail]

NoResponse == Response("none", 0, "", {}, <<>>)

\* ------------------------------------------------- generate-scaffold

Max(a, b) == IF a >= b THEN a ELSE b

\* const limits = { free: 3, pro: 50, team: 100, enterprise: -1 }
limits == [free |-> 3, pro |-> 50, team |-> 100, enterprise |-> -1]

\* limits[userData.subscription_tier] is undefined for a tier that is no key
\* of limits
HasLimit(tier) == tier \in DOMAIN limits

userLimit(tier) == limits[tier]

\* a check that lets every request through
LimitReached_Never(row) == FALSE

\* userLimit !== -1 && monthly_generations >= userLimit
\* (undefined !== -1 is true and number >= undefined is false)
LimitReached(row) ==
  /\ HasLimit(row.subscription_tier)
  /\ userLimit(row.subscription_tier) # -1
  /\ row.monthly_generations >= userLimit(row.subscription_tier)

\* a usage no finite entry of limits allows
AboveEveryLimit == Max(Max(limits.free, limits.pro), limits.team) + 1

\* GeneratedScaffold
ScaffoldKeys ==
  {"projectStructure", "databaseSchema", "apiEndpoints",
   "environmentVariables", "dependencies", "deploymentConfig",
   "securityRecommendations"}

\* What the generator's HTTP answer is to the adapter: response.ok or not,
\* whether the body has choices[0].message, whether its content parses to
\* an object, to null, or not at all, and the keys the object holds with a
\* truthy value.
AiResponse(http, envelope, content, keys) ==
  [http |-> http, envelope |-> envelope, content |-> content, keys |-> keys]

NoAiResponse == AiResponse("none", "none", "none", {})

\* A value of a scaffold is the set of the names of its entries; what the
\* generator wrote is one entry, "ai".
Undefined == {"undefined"}

\* generateDefaultStructure, generateDefaultEnvVars,
\* generateDefaultDependencies, generateDefaultDeployment,
\* generateDefaultSecurity, and [] for the two arrays
DefaultValue(key, frontend, backend) ==
  CASE key = "projectStructure" ->
         {"src", "public", "docs"}
           \cup (IF backend = "supabase" THEN {"supabase"} ELSE {})
    [] key = "environmentVariables" ->
         {"NODE_ENV", "VITE_APP_NAME"}
           \cup (IF backend = "supabase"
                 THEN {"VITE_SUPABASE_URL", "VITE_SUPABASE_ANON_KEY"} ELSE {})
    [] key = "dependencies" ->
         {"react", "react-dom", "typescript"}
           \cup (IF frontend = "nextjs" THEN {"next"} ELSE {})
           \cup (IF backend = "supabase" THEN {"@supabase/supabase-js"}
                 ELSE {})
    [] key = "deploymentConfig" ->
         {"platform", "buildCommand", "outputDirectory", "nodeVersion"}
    [] key = "securityRecommendations" ->
         {"rls", "secrets", "validation", "cors", "https", "rate limiting",
          "audits"}
    [] OTHER -> {}

\* generateScaffoldWithAI from the answer of the fetch on: whether it throws,
\* and the scaffold it returns
generateScaffoldWithAI(frontend, backend, response) ==
  IF response.http # "ok" \/ response.envelope # "choices"
  \* throw new Error(`OpenAI API error`), or the TypeError of
  \* data.choices[0].message.content
  THEN [thrown |-> TRUE, scaffold |-> [key \in ScaffoldKeys |-> Undefined]]
  ELSE IF response.content # "object"
  \* JSON.parse throws, or reading a property of null does: the catch block
  THEN [thrown |-> FALSE,
        scaffold |-> [key \in ScaffoldKeys |->
                        DefaultValue(key, frontend, backend)]]
  ELSE [thrown |-> FALSE,
        scaffold |-> [key \in ScaffoldKeys |->
                        IF key \in response.keys THEN {"ai"}
                        ELSE DefaultValue(key, frontend, backend)]]

GenIdle ==
  [pc |-> "idle", user |-> NULL, generations |-> 0, generated |-> 0,
   frontendStack |-> "", backendStack |-> "", project |-> NoId, result |-> 0,
   response |-> NoAiResponse,
   scaffold |-> [key \in ScaffoldKeys |-> Undefined]]

GenBodies ==
  [appIdea : {"", "a todo app"}, frontendStack : {"", "nextjs", "cobol"},
   backendStack : {""}]

\* serve handler up to the end of input validation: read the user row, check
\* the limit, parse and validate the body
GenerateScaffold_Check(r, u, body) ==
  /\ gen[r].pc = "idle"
  /\ LET userData == users[u] IN
       IF LimitReached(userData)
       THEN /\ gen' = [gen EXCEPT ![r] =
                         [@ EXCEPT !.pc = "done", !.user = u, !.result = 429]]
            /\ resp' = Response("GenerateScaffold", 429,
                         "Monthly generation limit reached", {},
                         <<userLimit(userData.subscription_tier),
                           userData.monthly_generations>>)
       ELSE IF body.appIdea = "" \/ body.frontendStack = ""
       THEN /\ gen' = [gen EXCEPT ![r] =
                         [@ EXCEPT !.pc = "done", !.user = u, !.result = 400]]
            /\ resp' = Response("GenerateScaffold", 400,
                         "Missing required fields", {}, <<>>)
       ELSE /\ gen' = [gen EXCEPT ![r] =
                         [GenIdle EXCEPT
                            !.pc = "generate", !.user = u,
                            !.generations = userData.monthly_generations,
                            !.generated = userData.projects_generated,
                            !.frontendStack = body.frontendStack,
                            !.backendStack = body.backendStack]]
            /\ UNCHANGED resp
  /\ UNCHANGED <<storeVars, ct, acc, accepted, initial_generations, deleted>>

\* generateScaffoldWithAI, then the insert into projects
GenerateScaffold_Insert(r, response) ==
  /\ gen[r].pc = "generate"
  /\ LET u == gen[r].user
         out == generateScaffoldWithAI(gen[r].frontendStack,
                                       gen[r].backendStack, response)
     IN
       IF out.thrown
       THEN /\ gen' = [gen EXCEPT ![r] = [@ EXCEPT !.pc = "done", !.result = 500,
                                                   !.response = response]]
            /\ resp' = Response("GenerateScaffold", 500,
                         "Internal server error", {}, <<>>)
            /\ UNCHANGED <<projects, activity_logs, nextId>>
       ELSE IF gen[r].frontendStack \notin tech_stack
       \* frontend_stack tech_stack NOT NULL: the insert is refused
       THEN /\ gen' = [gen EXCEPT ![r] = [@ EXCEPT !.pc = "done", !.result = 500,
                                                   !.response = response]]
            /\ resp' = Response("GenerateScaffold", 500,
                         "Failed to save project", {}, <<>>)
            /\ UNCHANGED <<projects, activity_logs, nextId>>
       ELSE LET p == ProjectRow(nextId, u, NoId, "private", FALSE, "generated") IN
            /\ projects' = projects \cup {p}
            /\ activity_logs' = handle_project_activity(activity_logs, p)
            /\ nextId' = nextId + 1
            /\ gen' = [gen EXCEPT ![r] = [@ EXCEPT !.pc = "count", !.project = p.id,
                                                   !.response = response,
                                                   !.scaffold = out.scaffold]]
            /\ UNCHANGED resp
  /\ UNCHANGED <<users, teams, team_members, project_collaborators, templates,
                 usage_analytics, ct, acc, accepted, initial_generations, deleted>>

\* the update of the usage counters from the values read at the start, the
\* analytics row and the success response
GenerateScaffold_Count(r) ==
  /\ gen[r].pc = "count"
  /\ LET u == gen[r].user IN
       /\ users' = UpdateUser(u, [users[u] EXCEPT
                      !.monthly_generations = gen[r].generations + 1,
                      !.projects_generated = gen[r].generated + 1])
       /\ usage_analytics' = usage_analytics (+)
            SetToBag({[user_id |-> u, event_type |-> "scaffold_generated"]})
       /\ gen' = [gen EXCEPT ![r] = [@ EXCEPT !.pc = "done", !.result = 200]]
       /\ resp' = Response("GenerateScaffold", 200, "", {}, <<>>)
  /\ UNCHANGED <<teams, team_members, projects, project_collaborators,
                 templates, activity_logs, nextId, ct, acc, accepted,
                 initial_generations, deleted>>

\* ------------------------------------------------------------ slugs

\* Names and slugs are sequences of characters.
Letters == {"a", "b"}
Capitals == {"A", "B"}
Digits == {"1", "2", "3", "4", "5", "6", "7", "8", "9"}

\* String.prototype.toLowerCase, one character
LowerChar(c) == IF c = "A" THEN "a" ELSE IF c = "B" THEN "b" ELSE c

toLowerCase(s) == [i \in 1..Len(s) |-> LowerChar(s[i])]

\* [a-z0-9]
IsAlnum(c) == c \in Letters \cup Digits

\* .replace(/[^a-z0-9]+/g, '-'): every run of other characters becomes one
\* hyphen
RECURSIVE ReplaceRuns(_)
ReplaceRuns(s) ==
  IF s = <<>> THEN <<>>
  ELSE IF IsAlnum(Head(s)) THEN <<Head(s)>> \o ReplaceRuns(Tail(s))
  ELSE IF Len(s) > 1 /\ ~IsAlnum(s[2]) THEN ReplaceRuns(Tail(s))
  ELSE <<"-">> \o ReplaceRuns(Tail(s))

\* .replace(/(^-|-$)/g, ''): one hyphen off each end
StripHyphens(s) ==
  LET a == IF s # <<>> /\ Head(s) = "-" THEN Tail(s) ELSE s IN
    IF a # <<>> /\ a[Len(a)] = "-" THEN SubSeq(a, 1, Len(a) - 1) ELSE a

Slugify(name) == StripHyphens(ReplaceRuns(toLowerCase(name)))

\* String.prototype.trim
RECURSIVE TrimLeft(_)
TrimLeft(s) ==
  IF s # <<>> /\ Head(s) = " " THEN TrimLeft(Tail(s)) ELSE s

RECURSIVE TrimRight(_)
TrimRight(s) ==
  IF s # <<>> /\ s[Len(s)] = " " THEN TrimRight(SubSeq(s, 1, Len(s) - 1))
  ELSE s

trim(s) == TrimRight(TrimLeft(s))

\* `${slug}-${counter}`, the counter written in decimal (one digit here)
DigitOf(n) == <<"1", "2", "3", "4", "5", "6", "7", "8", "9">>[n]

testSlug(slug, counter) ==
  IF counter > 0 THEN slug \o <<"-", DigitOf(counter)>> ELSE slug

\* CONSTRAINT valid_slug CHECK (slug ~* '^[a-z0-9-]+$'), case-insensitive
valid_slug(slug) ==
  /\ slug # <<>>
  /\ \A i \in 1..Len(slug) : IsAlnum(LowerChar(slug[i])) \/ slug[i] = "-"

\* a teams table without the constraint
teams_slug_unique_Dropped(slug) == TRUE

\* slug TEXT UNIQUE NOT NULL on public.teams
teams_slug_unique(slug) == \A t \in teams : t.slug # slug

\* ------------------------------------------------------ team-management

\* member_limit INTEGER DEFAULT 5
DefaultMemberLimit == 5

TeamRoles == {"owner", "admin", "member", "guest"}
MemberStatuses == {"pending", "active", "suspended", "removed"}

TeamRow(id, slug, creator) ==
  [id |-> id, slug |-> slug, member_limit |-> DefaultMemberLimit,
   created_by |-> creator]

MemberRow(id, team, user, role, status, token) ==
  [id |-> id, team_id |-> team, user_id |-> user, role |-> role,
   status |-> status, invitation_token |-> token]

\* .from('team_members').eq('team_id', t).eq('user_id', u).single(): the row,
\* or no data when no row matches (UNIQUE(team_id, user_id) leaves at most one)
Membership(t, u) ==
  {tm \in team_members : tm.team_id = t /\ tm.user_id = u}

\* membership && status === 'active' && ['owner', 'admin'].includes(role)
IsTeamAdmin(t, u) ==
  \E tm \in Membership(t, u) :
    tm.status = "active" /\ tm.role \in {"owner", "admin"}

\* serve: a caller whose users row is not active gets 403 before dispatch
Suspended(op, u) ==
  /\ ~users[u].is_active
  /\ resp' = Response(op, 403, "Account suspended", {}, <<>>)

CtIdle ==
  [pc |-> "idle", user |-> NULL, slug |-> <<>>, counter |-> 0, team |-> NoId]

\* handleCreateTeam up to the slug loop: the tier and name checks, and the
\* candidate slug
CreateTeam_Check(c, u, name, slug) ==
  /\ ct[c].pc = "idle"
  /\ \/ /\ Suspended("CreateTeam", u)
        /\ UNCHANGED ct
     \/ /\ users[u].is_active
        /\ IF users[u].subscription_tier \notin PaidTiers
           THEN /\ resp' = Response("CreateTeam", 403,
                             "Team features require a Pro or Team subscription",
                             {}, <<>>)
                /\ UNCHANGED ct
           ELSE IF name = <<>> \/ Len(trim(name)) < 2
           THEN /\ resp' = Response("CreateTeam", 400,
                             "Team name must be at least 2 characters",
                             {}, <<>>)
                /\ UNCHANGED ct
           ELSE /\ ct' = [ct EXCEPT ![c] =
                            [pc |-> "slug", user |-> u,
                             slug |-> IF slug # <<>> THEN slug
                                      ELSE Slugify(name),
                             counter |-> 0, team |-> NoId]]
                /\ UNCHANGED resp
  /\ UNCHANGED <<storeVars, gen, acc, accepted, initial_generations, deleted>>

\* one turn of the "while (slugExists)" loop: look the candidate up
CreateTeam_Slug(c) ==
  /\ ct[c].pc = "slug"
  /\ LET candidate == testSlug(ct[c].slug, ct[c].counter) IN
       IF \E t \in teams : t.slug = candidate
       THEN ct' = [ct EXCEPT ![c] = [@ EXCEPT !.counter = @ + 1]]
       ELSE ct' = [ct EXCEPT ![c] = [@ EXCEPT !.pc = "insert",
                                                !.slug = candidate]]
  /\ UNCHANGED <<storeVars, gen, acc, resp, accepted, initial_generations, deleted>>

\* the insert into teams; a constraint violation is thrown and answered 500
CreateTeam_Insert(c) ==
  /\ ct[c].pc = "insert"
  /\ IF valid_slug(ct[c].slug) /\ teams_slug_unique(ct[c].slug)
     THEN /\ teams' = teams \cup {TeamRow(nextId, ct[c].slug, ct[c].user)}
          /\ nextId' = nextId + 1
          /\ ct' = [ct EXCEPT ![c] = [@ EXCEPT !.pc = "owner",
                                                !.team = nextId]]
          /\ UNCHANGED resp
     ELSE /\ ct' = [ct EXCEPT ![c] = CtIdle]
          /\ resp' = Response("CreateTeam", 500, "Failed to create team", {}, <<>>)
          /\ UNCHANGED <<teams, nextId>>
  /\ UNCHANGED <<users, team_members, projects, project_collaborators,
                 templates, activity_logs, usage_analytics, gen, acc, accepted,
                 initial_generations, deleted>>

\* the insert of the creator's owner row; when the store answers the insert
\* with an error (memberError), it is thrown and answered 500
CreateTeam_Owner(c, outcome) ==
  /\ ct[c].pc = "owner"
  /\ IF outcome = "error"
     THEN /\ ct' = [ct EXCEPT ![c] = CtIdle]
          /\ resp' = Response("CreateTeam", 500, "Failed to create team", {}, <<>>)
          /\ UNCHANGED <<team_members, nextId>>
     ELSE /\ team_members' = team_members \cup
               {MemberRow(nextId, ct[c].team, ct[c].user, "owner", "active",
                          NoId)}
          /\ nextId' = nextId + 1
          /\ ct' = [ct EXCEPT ![c] = [@ EXCEPT !.pc = "finish"]]
          /\ UNCHANGED resp
  /\ UNCHANGED <<users, teams, projects, project_collaborators, templates,
                 activity_logs, usage_analytics, gen, acc, accepted,
                 initial_generations, deleted>>

\* the update of the creator's current team, the log row and the response
CreateTeam_Finish(c) ==
  /\ ct[c].pc = "finish"
  /\ LET u == ct[c].user IN
       /\ users' = UpdateUser(u, [users[u] EXCEPT
                                    !.current_team_id = ct[c].team])
       /\ activity_logs' = AddLog(activity_logs,
            LogRow(u, ct[c].team, "team_created", ct[c].team))
       /\ resp' = Response("CreateTeam", 200, "", {}, <<>>)
  /\ ct' = [ct EXCEPT ![c] = CtIdle]
  /\ UNCHANGED <<teams, team_members, projects, project_collaborators,
                 templates, usage_analytics, nextId, gen, acc, accepted,
                 initial_generations, deleted>>

\* An email is named by the user who registered it; two more inputs stand for
\* a well-formed address nobody registered and for a malformed one.
UnregisteredEmail == "nobody@x.com"
MalformedEmail == "not-an-email"
Emails == Users \cup {UnregisteredEmail, MalformedEmail}

\* role: 'admin' | 'member' | 'guest' (TeamInviteRequest)
InviteRoles == {"admin", "member", "guest"}

\* handleInviteMember
InviteMember(u, t, email, role) ==
  /\ \/ Suspended("InviteMember", u) /\ UNCHANGED <<team_members, activity_logs, nextId>>
     \/ /\ users[u].is_active
        /\ IF ~IsTeamAdmin(t, u)
           THEN /\ resp' = Response("InviteMember", 403, "Permission denied",
                                    {}, <<>>)
                /\ UNCHANGED <<team_members, activity_logs, nextId>>
           ELSE IF email = MalformedEmail
           THEN /\ resp' = Response("InviteMember", 400,
                                    "Invalid email address", {}, <<>>)
                /\ UNCHANGED <<team_members, activity_logs, nextId>>
           ELSE IF email \in Users /\ Membership(t, email) # {}
           THEN /\ resp' = Response("InviteMember", 400,
                          IF \E tm \in Membership(t, email) : tm.status = "active"
                          THEN "User is already a team member"
                          ELSE "User has a pending invitation", {}, <<>>)
                /\ UNCHANGED <<team_members, activity_logs, nextId>>
           ELSE IF email \notin Users
           \* user_id: existingUser?.id || null violates NOT NULL
           THEN /\ resp' = Response("InviteMember", 500,
                                    "Failed to send invitation", {}, <<>>)
                /\ UNCHANGED <<team_members, activity_logs, nextId>>
           ELSE /\ team_members' = team_members \cup
                     {MemberRow(nextId, t, email, role, "pending", nextId + 1)}
                /\ nextId' = nextId + 2
                /\ activity_logs' = AddLog(activity_logs,
                     LogRow(u, t, "member_invited", NoId))
                /\ resp' = Response("InviteMember", 200, "", {}, <<>>)
  /\ UNCHANGED <<users, teams, projects, project_collaborators, templates,
                 usage_analytics, gen, ct, acc, accepted,
                 initial_generations, deleted>>

AccIdle == [pc |-> "idle", user |-> NULL, token |-> NoId, invitation |-> NoId,
            team_id |-> NoId]

\* .eq('invitation_token', token).eq('status', 'pending').single()
PendingInvitation(token) ==
  {tm \in team_members : tm.invitation_token = token /\ tm.status = "pending"}

\* team:teams(member_limit, current_members:team_members(count)): every
\* team_members row of the team is counted
current_members(t) == Cardinality({tm \in team_members : tm.team_id = t})

member_limit(t) == (CHOOSE row \in teams : row.id = t).member_limit

\* a check that takes every invitation to be the caller's
NotForAccount_Never(invitation, u) == FALSE

\* invitation.user_id && invitation.user_id !== userId
NotForAccount(invitation, u) ==
  invitation.user_id # NULL /\ invitation.user_id # u

\* handleAcceptInvitation up to the update, behind serve's check of the
\* caller's account: the refusal it answers with, or no response when the
\* invitation is found, is the caller's, and the team has room
AcceptInvitation_Refusal(u, token) ==
  IF ~users[u].is_active
  THEN Response("AcceptInvitation", 403, "Account suspended", {}, <<>>)
  ELSE IF PendingInvitation(token) = {}
  THEN Response("AcceptInvitation", 404, "Invalid or expired invitation",
                {}, <<>>)
  ELSE LET invitation == CHOOSE tm \in PendingInvitation(token) : TRUE IN
    IF NotForAccount(invitation, u)
    THEN Response("AcceptInvitation", 403,
                  "This invitation is not for your account", {}, <<>>)
    ELSE IF current_members(invitation.team_id)
              >= member_limit(invitation.team_id)
    THEN Response("AcceptInvitation", 400, "Team has reached member limit",
                  {}, <<>>)
    ELSE NoResponse

AcceptInvitation_Lookup(a, u, token) ==
  /\ acc[a].pc = "idle"
  /\ token # NoId
  /\ IF AcceptInvitation_Refusal(u, token) # NoResponse
     THEN /\ resp' = AcceptInvitation_Refusal(u, token)
          /\ UNCHANGED acc
     ELSE LET invitation == CHOOSE tm \in PendingInvitation(token) : TRUE IN
          /\ acc' = [acc EXCEPT ![a] =
                       [pc |-> "activate", user |-> u, token |-> token,
                        invitation |-> invitation.id,
                        team_id |-> invitation.team_id]]
          /\ UNCHANGED resp
  /\ UNCHANGED <<storeVars, gen, ct, accepted, initial_generations, deleted>>

\* an activation that leaves the token on the row
AcceptInvitation_Activate_KeepToken(a) ==
  /\ acc[a].pc = "activate"
  /\ team_members' =
       {IF tm.id = acc[a].invitation
        THEN [tm EXCEPT !.user_id = acc[a].user, !.status = "active"]
        ELSE tm : tm \in team_members}
  /\ acc' = [acc EXCEPT ![a] = [@ EXCEPT !.pc = "finish"]]
  /\ UNCHANGED <<users, teams, projects, project_collaborators, templates,
                 activity_logs, usage_analytics, nextId, gen, ct, resp,
                 accepted, initial_generations, deleted>>

\* .update({user_id, status: 'active', invitation_token: null})
\*   .eq('id', invitation.id)
AcceptInvitation_Activate(a) ==
  /\ acc[a].pc = "activate"
  /\ team_members' =
       {IF tm.id = acc[a].invitation
        THEN [tm EXCEPT !.user_id = acc[a].user, !.status = "active",
                        !.invitation_token = NoId]
        ELSE tm : tm \in team_members}
  /\ acc' = [acc EXCEPT ![a] = [@ EXCEPT !.pc = "finish"]]
  /\ UNCHANGED <<users, teams, projects, project_collaborators, templates,
                 activity_logs, usage_analytics, nextId, gen, ct, resp,
                 accepted, initial_generations, deleted>>

\* the user's current team when there is none, the log row and the response
AcceptInvitation_Finish(a) ==
  /\ acc[a].pc = "finish"
  /\ LET u == acc[a].user IN
       /\ users' = IF users[u].current_team_id = NoId
                   THEN UpdateUser(u, [users[u] EXCEPT
                                         !.current_team_id = acc[a].team_id])
                   ELSE users
       /\ activity_logs' = AddLog(activity_logs,
            LogRow(u, acc[a].team_id, "invitation_accepted", NoId))
       /\ resp' = Response("AcceptInvitation", 200, "", {}, <<>>)
  /\ accepted' = accepted (+) SetToBag({acc[a].token})
  /\ acc' = [acc EXCEPT ![a] = AccIdle]
  /\ UNCHANGED <<teams, team_members, projects, project_collaborators,
                 templates, usage_analytics, nextId, gen, ct,
                 initial_generations, deleted>>

\* what an UpdateMember body sets here: a role or a status, or the team of
\* the row (the body is written to the row as it comes)
NoChange == "unchanged"
MemberPatches ==
  {patch \in [role : TeamRoles \cup {NoChange},
              status : MemberStatuses \cup {NoChange}] :
     (patch.role = NoChange) # (patch.status = NoChange)}

MemberMoves ==
  {[role |-> NoChange, status |-> NoChange, team_id |-> t.id] : t \in teams}

ApplyMemberPatch(tm, patch) ==
  [tm EXCEPT
     !.role = IF patch.role = NoChange THEN @ ELSE patch.role,
     !.status = IF patch.status = NoChange THEN @ ELSE patch.status,
     !.team_id = IF "team_id" \in DOMAIN patch THEN patch.team_id ELSE @]

\* team_id REFERENCES public.teams(id) and UNIQUE(team_id, user_id), for a
\* row that an update writes
team_members_constraints(row) ==
  /\ \E t \in teams : t.id = row.team_id
  /\ \A other \in team_members :
       other.id # row.id
         => ~(other.team_id = row.team_id /\ other.user_id = row.user_id)

\* no protection of the owner's row
OwnerProtected_Never(target, adminMembership) == FALSE

\* targetMember.role === 'owner' && adminMembership.role !== 'owner'
OwnerProtected(target, adminMembership) ==
  target.role = "owner" /\ adminMembership.role # "owner"

\* handleUpdateMember, behind serve's check of the caller's account: the
\* response and the team_members rows it leaves
handleUpdateMember(u, t, memberId, patch) ==
  IF ~users[u].is_active
  THEN [resp |-> Response("UpdateMember", 403, "Account suspended", {}, <<>>),
        rows |-> team_members]
  ELSE IF ~IsTeamAdmin(t, u)
  THEN [resp |-> Response("UpdateMember", 403, "Permission denied", {}, <<>>),
        rows |-> team_members]
  ELSE LET adminMembership == CHOOSE tm \in Membership(t, u) : TRUE
           targets == {tm \in team_members : tm.id = memberId /\ tm.team_id = t}
       IN
    IF targets = {}
    THEN [resp |-> Response("UpdateMember", 404, "Member not found", {}, <<>>),
          rows |-> team_members]
    ELSE IF OwnerProtected(CHOOSE tm \in targets : TRUE, adminMembership)
    THEN [resp |-> Response("UpdateMember", 403,
                     "Only team owners can modify owner permissions", {}, <<>>),
          rows |-> team_members]
    ELSE IF ~team_members_constraints(
                 ApplyMemberPatch(CHOOSE tm \in targets : TRUE, patch))
    THEN [resp |-> Response("UpdateMember", 500, "Failed to update member",
                            {}, <<>>),
          rows |-> team_members]
    ELSE [resp |-> Response("UpdateMember", 200, "", {}, <<>>),
          rows |-> {IF tm.id = memberId THEN ApplyMemberPatch(tm, patch)
                    ELSE tm : tm \in team_members}]

UpdateMember(u, t, memberId, patch) ==
  /\ resp' = handleUpdateMember(u, t, memberId, patch).resp
  /\ team_members' = handleUpdateMember(u, t, memberId, patch).rows
  /\ UNCHANGED <<users, teams, projects, project_collaborators, templates,
                 activity_logs, usage_analytics, nextId, gen, ct, acc,
                 accepted, initial_generations, deleted>>

\* DELETE with team_id and member_id: the dispatcher calls handleRemoveMember,
\* which the module does not define; the ReferenceError is caught by serve
RemoveMember(u, t, memberId) ==
  /\ \/ Suspended("RemoveMember", u)
     \/ /\ users[u].is_active
        /\ resp' = Response("RemoveMember", 500,
                            "Internal server error", {}, <<>>)
  /\ UNCHANGED <<storeVars, gen, ct, acc, accepted, initial_generations, deleted>>

\* ------------------------------------------------------ manage-projects

\* visibility TEXT CHECK (visibility IN ('private', 'team', 'public'))
ProjectVisibilities == {"private", "team", "public"}

\* the time a deletion or an update writes into deleted_at
Now == "now"

CollaboratorRow(id, project, user, role, status) ==
  [id |-> id, project_id |-> project, user_id |-> user, role |-> role,
   status |-> status]

\* POLICY projects_select_access of public.projects, for auth.uid() = u. In
\* the collaborator subquery the unqualified "id" is the id of the
\* project_collaborators row itself, the innermost table that has the column.
projects_select_access(u, p) ==
  /\ p.deleted_at = NULL
  /\ \/ p.user_id = u
     \/ /\ p.team_id # NoId
        /\ \E tm \in team_members :
             tm.team_id = p.team_id /\ tm.user_id = u /\ tm.status = "active"
     \/ \E pc \in project_collaborators :
          pc.project_id = pc.id /\ pc.user_id = u /\ pc.status = "active"
     \/ p.visibility = "public" /\ p.is_public

\* POLICY projects_modify_authorized of public.projects, for auth.uid() = u,
\* with the same unqualified "id" in its collaborator subquery
projects_modify_authorized(u, p) ==
  /\ p.deleted_at = NULL
  /\ \/ p.user_id = u
     \/ /\ p.team_id # NoId
        /\ \E tm \in team_members :
             /\ tm.team_id = p.team_id
             /\ tm.user_id = u
             /\ tm.role \in {"owner", "admin"}
             /\ tm.status = "active"
     \/ \E pc \in project_collaborators :
          /\ pc.project_id = pc.id
          /\ pc.user_id = u
          /\ pc.role \in {"owner", "editor"}
          /\ pc.status = "active"

\* handleGetProjects: the caller's own rows, or with an id the one row of the
\* caller with that id; .single() without a row is an error, which is thrown
handleGetProjects(u, projectId) ==
  LET rows == {p \in projects :
                 p.user_id = u /\ (projectId = NoId \/ p.id = projectId)}
  IN IF projectId # NoId /\ rows = {}
     THEN Response("GetProjects", 500, "Failed to fetch projects", {}, <<>>)
     ELSE Response("GetProjects", 200, "", {p.id : p \in rows}, <<>>)

GetProjects(u, projectId) ==
  /\ resp' = handleGetProjects(u, projectId)
  /\ UNCHANGED <<storeVars, gen, ct, acc, accepted, initial_generations,
                 deleted>>

\* what a POST body may carry besides the fields every body here has
ProjectBodies ==
  [team_id : {NoId, 1}, visibility : {"private", "public", "hidden"},
   is_public : BOOLEAN]

\* handleCreateProject: the insert of {...projectData, user_id, status:
\* 'draft'} with its trigger, and the usage_analytics row
CreateProject(u, body) ==
  /\ IF /\ body.visibility \in ProjectVisibilities
        /\ body.team_id # NoId => \E t \in teams : t.id = body.team_id
     THEN LET p == ProjectRow(nextId, u, body.team_id, body.visibility,
                              body.is_public, "draft")
          IN /\ projects' = projects \cup {p}
             /\ activity_logs' = handle_project_activity(activity_logs, p)
             /\ usage_analytics' = usage_analytics (+)
                  SetToBag({[user_id |-> u, event_type |-> "project_created"]})
             /\ nextId' = nextId + 1
             /\ resp' = Response("CreateProject", 200, "", {nextId}, <<>>)
     ELSE /\ resp' = Response("CreateProject", 500,
                              "Failed to create project", {}, <<>>)
          /\ UNCHANGED <<projects, activity_logs, usage_analytics, nextId>>
  /\ UNCHANGED <<users, teams, team_members, project_collaborators, templates,
                 gen, ct, acc, accepted, initial_generations, deleted>>

\* what a PUT body may set
ProjectPatches ==
  {[deleted_at |-> Now], [status |-> "archived"]}

ApplyPatch(row, patch) ==
  [f \in DOMAIN row |-> IF f \in DOMAIN patch THEN patch[f] ELSE row[f]]

\* the UPDATE branch of the trigger on public.projects
project_status_changed(logs, old, new) ==
  IF old.status # new.status
  THEN AddLog(logs, LogRow(new.user_id, NoId, "project_status_changed", new.id))
  ELSE logs

\* existingProject && existingProject.user_id === userId
OwnsProject(u, projectId) ==
  \E p \in projects : p.id = projectId /\ p.user_id = u

\* handleUpdateProject
UpdateProject(u, projectId, patch) ==
  /\ IF ~OwnsProject(u, projectId)
     THEN /\ resp' = Response("UpdateProject", 404,
                              "Project not found or access denied", {}, <<>>)
          /\ UNCHANGED <<projects, activity_logs>>
     ELSE LET old == CHOOSE p \in projects : p.id = projectId
              new == ApplyPatch(old, patch)
          IN /\ projects' = (projects \ {old}) \cup {new}
             /\ activity_logs' = project_status_changed(activity_logs, old, new)
             /\ resp' = Response("UpdateProject", 200, "", {projectId}, <<>>)
  /\ UNCHANGED <<users, teams, team_members, project_collaborators, templates,
                 usage_analytics, nextId, gen, ct, acc, accepted,
                 initial_generations, deleted>>

\* handleDeleteProject: .from('projects').delete().eq('id', projectId), and
\* ON DELETE CASCADE of project_collaborators.project_id
DeleteProject(u, projectId) ==
  /\ IF ~OwnsProject(u, projectId)
     THEN /\ resp' = Response("DeleteProject", 404,
                              "Project not found or access denied", {}, <<>>)
          /\ UNCHANGED <<projects, project_collaborators, deleted>>
     ELSE /\ projects' = {p \in projects : p.id # projectId}
          /\ project_collaborators' =
               {pc \in project_collaborators : pc.project_id # projectId}
          /\ deleted' = deleted \cup {projectId}
          /\ resp' = Response("DeleteProject", 200, "", {}, <<>>)
  /\ UNCHANGED <<users, teams, team_members, templates, activity_logs,
                 usage_analytics, nextId, gen, ct, acc, accepted,
                 initial_generations>>

\* A row of project_collaborators written by the project's owner through the
\* table's policy "Project owners can manage collaborators"; no function of
\* the repository writes the table. UNIQUE(project_id, user_id).
ManageCollaborators(u, projectId, collaborator, role, status) ==
  /\ OwnsProject(u, projectId)
  /\ ~\E pc \in project_collaborators :
        pc.project_id = projectId /\ pc.user_id = collaborator
  /\ project_collaborators' = project_collaborators \cup
       {CollaboratorRow(nextId, projectId, collaborator, role, status)}
  /\ nextId' = nextId + 1
  /\ UNCHANGED <<users, teams, team_members, projects, templates,
                 activity_logs, usage_analytics, gen, ct, acc, resp, accepted,
                 initial_generations, deleted>>

\* --------------------------------------------------- template-marketplace

\* the caller of a request without an Authorization header is NULL
Callers == Users \cup {NULL}

TemplateRow(id, slug, creator, team, visibility) ==
  [id |-> id, slug |-> slug, created_by |-> creator, team_id |-> team,
   visibility |-> visibility, is_approved |-> FALSE, deleted_at |-> NULL,
   view_count |-> 0]

\* CREATE TYPE template_visibility
template_visibility ==
  {"public", "premium", "team", "private", "unlisted", "deprecated",
   "under_review"}

\* .eq('deleted_at', null): as written the filter compares the timestamp with
\* the text "null", which the store refuses; read as IS NULL it keeps the rows
\* that are not deleted. Which of the two the client library sends is not
\* fixed by the repository.
EqNullReadings == {"is_null", "refused"}

\* template.created_by after select('*, created_by:users!...(id, ...)'): the
\* column, or the embedded users row that the alias puts under the same key
CreatedByReadings == {"column", "embedded"}

\* checkTemplateAccess
checkTemplateAccess(template, caller, created_by) ==
  IF template.visibility \in {"public", "unlisted"} THEN TRUE
  ELSE IF caller = NULL THEN FALSE
  ELSE IF created_by = "column" /\ template.created_by = caller THEN TRUE
  ELSE IF template.visibility = "premium"
  THEN users[caller].subscription_tier \in PaidTiers
  ELSE IF template.visibility = "team" /\ template.team_id # NoId
  THEN \E tm \in Membership(template.team_id, caller) : tm.status = "active"
  ELSE FALSE

\* handleGetTemplate: the response, and the templates and activity_logs it
\* leaves
handleGetTemplate(caller, templateId, eq_null, created_by) ==
  LET rows == {t \in templates : t.id = templateId /\ t.deleted_at = NULL}
      failed == [resp |-> Response("GetTemplate", 500,
                                   "Failed to fetch template", {}, <<>>),
                 templates |-> templates, activity_logs |-> activity_logs]
  IN IF eq_null = "refused" \/ rows = {} THEN failed
     ELSE LET template == CHOOSE t \in rows : TRUE IN
       IF ~checkTemplateAccess(template, caller, created_by)
       THEN [failed EXCEPT !.resp = Response("GetTemplate", 403,
                                             "Access denied", {}, <<>>)]
       ELSE [resp |-> Response("GetTemplate", 200, "", {templateId}, <<>>),
             templates |->
               {IF t.id = templateId
                THEN [t EXCEPT !.view_count = template.view_count + 1]
                ELSE t : t \in templates},
             activity_logs |->
               IF caller = NULL THEN activity_logs
               ELSE AddLog(activity_logs,
                      LogRow(caller, NoId, "template_viewed", templateId))]

GetTemplate(caller, templateId, eq_null, created_by) ==
  /\ resp' = handleGetTemplate(caller, templateId, eq_null, created_by).resp
  /\ templates' =
       handleGetTemplate(caller, templateId, eq_null, created_by).templates
  /\ activity_logs' =
       handleGetTemplate(caller, templateId, eq_null, created_by).activity_logs
  /\ UNCHANGED <<users, teams, team_members, projects, project_collaborators,
                 usage_analytics, nextId, gen, ct, acc, accepted,
                 initial_generations, deleted>>

\* the ?visibility= parameter of a search; "" when absent
VisibilityParams == {"", "public", "private"}

\* the rows handleSearchTemplates selects: every filter added to the query,
\* the two .or() groups included, narrows it
SearchRows(caller, visibility) ==
  {t \in templates :
     /\ t.deleted_at = NULL
     /\ t.is_approved
     /\ IF caller = NULL THEN t.visibility = "public"
        ELSE /\ t.visibility \in
                  (IF users[caller].subscription_tier \in PaidTiers
                   THEN {"public", "premium", "unlisted"}
                   ELSE {"public", "unlisted"})
             /\ t.created_by = caller
             /\ users[caller].current_team_id # NoId
                  => t.team_id = users[caller].current_team_id
             /\ visibility # "" => t.visibility = visibility}

\* handleSearchTemplates: the response and the activity_logs it leaves
handleSearchTemplates(caller, visibility, eq_null) ==
  IF eq_null = "refused"
  THEN [resp |-> Response("SearchTemplates", 500,
                          "Failed to search templates", {}, <<>>),
        activity_logs |-> activity_logs]
  ELSE [resp |-> Response("SearchTemplates", 200, "",
                          {t.id : t \in SearchRows(caller, visibility)}, <<>>),
        activity_logs |->
          IF caller = NULL THEN activity_logs
          ELSE AddLog(activity_logs,
                      LogRow(caller, NoId, "template_search", NoId))]

SearchTemplates(caller, visibility, eq_null) ==
  /\ resp' = handleSearchTemplates(caller, visibility, eq_null).resp
  /\ activity_logs' =
       handleSearchTemplates(caller, visibility, eq_null).activity_logs
  /\ UNCHANGED <<users, teams, team_members, projects, project_collaborators,
                 templates, usage_analytics, nextId, gen, ct, acc, accepted,
                 initial_generations, deleted>>

\* what a POST body may carry: a name (empty when a required field is
\* missing), a visibility ("" when absent) and a team. The two names have one
\* slug, so the table comes to hold one template.
TemplateBodies ==
  [name : {<<>>, <<"a">>, <<"A">>},
   visibility : {"", "public", "premium", "team", "hidden"},
   team_id : {NoId, 1}]

\* handleCreateTemplate
CreateTemplate(u, body) ==
  /\ IF body.name = <<>>
     THEN /\ resp' = Response("CreateTemplate", 400,
                              "Missing required field", {}, <<>>)
          /\ UNCHANGED <<templates, activity_logs, nextId>>
     ELSE LET template ==
                TemplateRow(nextId, Slugify(body.name), u, body.team_id,
                            IF body.visibility # "" THEN body.visibility
                            ELSE "private")
          IN IF /\ template.visibility \in template_visibility
                /\ \A t \in templates : t.slug # template.slug
                /\ body.team_id # NoId => \E t \in teams : t.id = body.team_id
             THEN /\ templates' = templates \cup {template}
                  /\ activity_logs' = AddLog(activity_logs,
                       LogRow(u, NoId, "template_created", nextId))
                  /\ nextId' = nextId + 1
                  /\ resp' = Response("CreateTemplate", 200, "", {nextId}, <<>>)
             ELSE /\ resp' = Response("CreateTemplate", 500,
                                      "Failed to create template", {}, <<>>)
                  /\ UNCHANGED <<templates, activity_logs, nextId>>
  /\ UNCHANGED <<users, teams, team_members, projects, project_collaborators,
                 usage_analytics, gen, ct, acc, accepted, initial_generations,
                 deleted>>

\* POLICY templates_modify_creator of public.templates, for auth.uid() = u
templates_modify_creator(u, t) ==
  \/ t.created_by = u
  \/ /\ t.team_id # NoId
     /\ \E tm \in team_members :
          /\ tm.team_id = t.team_id
          /\ tm.user_id = u
          /\ tm.role \in {"owner", "admin"}
          /\ tm.status = "active"
  \/ users[u].role \in {"moderator", "admin", "super_admin"} /\ users[u].is_active

\* checkTeamAdminAccess
checkTeamAdminAccess(teamId, u) ==
  /\ teamId # NoId
  /\ \E tm \in Membership(teamId, u) :
       tm.status = "active" /\ tm.role \in {"owner", "admin"}

\* what a PUT body may set
TemplatePatches == {[is_approved |-> TRUE], [visibility |-> "private"]}

\* handleUpdateTemplate
UpdateTemplate(u, templateId, patch) ==
  /\ LET rows == {t \in templates : t.id = templateId} IN
       IF rows = {}
       THEN /\ resp' = Response("UpdateTemplate", 404, "Template not found",
                                {}, <<>>)
            /\ UNCHANGED templates
       ELSE LET template == CHOOSE t \in rows : TRUE IN
         IF ~(\/ template.created_by = u
              \/ checkTeamAdminAccess(template.team_id, u))
         THEN /\ resp' = Response("UpdateTemplate", 403, "Permission denied",
                                  {}, <<>>)
              /\ UNCHANGED templates
         ELSE /\ templates' =
                   (templates \ rows) \cup {ApplyPatch(template, patch)}
              /\ resp' = Response("UpdateTemplate", 200, "", {templateId},
                                  <<>>)
  /\ UNCHANGED <<users, teams, team_members, projects, project_collaborators,
                 activity_logs, usage_analytics, nextId, gen, ct, acc,
                 accepted, initial_generations, deleted>>

\* handleDeleteTemplate: the update of deleted_at on the rows with this id
\* and this creator; the answer is the same when no row matched
DeleteTemplate(u, templateId) ==
  /\ templates' =
       {IF t.id = templateId /\ t.created_by = u
        THEN [t EXCEPT !.deleted_at = Now] ELSE t : t \in templates}
  /\ deleted' = deleted \cup {t.id : t \in {r \in templates : r.id = templateId}}
  /\ resp' = Response("DeleteTemplate", 200, "", {}, <<>>)
  /\ UNCHANGED <<users, teams, team_members, projects, project_collaborators,
                 activity_logs, usage_analytics, nextId, gen, ct, acc,
                 accepted, initial_generations>>

\* ------------------------------------------------------------ SpecGen

EmptyStore ==
  /\ teams = {}
  /\ team_members = {}
  /\ projects = {}
  /\ project_collaborators = {}
  /\ templates = {}
  /\ activity_logs = EmptyBag
  /\ usage_analytics = EmptyBag
  /\ nextId = 1

NoRequests ==
  /\ gen = [r \in GenReqs |-> GenIdle]
  /\ ct = [c \in CtReqs |-> CtIdle]
  /\ acc = [a \in AccReqs |-> AccIdle]
  /\ resp = NoResponse
  /\ accepted = EmptyBag
  /\ deleted = {}

\* u1 is on the free tier, one generation short of its limit or at it, u2 on a paid tier
\* of the enhanced schema with a usage beyond every limit of the table, u3 on
\* the enterprise tier.
InitGen ==
  /\ EmptyStore
  /\ NoRequests
  /\ \E g \in (limits.free - 1)..limits.free :
       users = [u \in Users |->
                  IF u = "u1" THEN UserRow("free", "user", TRUE, g)
                  ELSE IF u = "u2"
                  THEN UserRow("pro_monthly", "user", TRUE, AboveEveryLimit)
                  ELSE UserRow("enterprise", "user", TRUE, 0)]
  /\ initial_generations = [u \in Users |-> users[u].monthly_generations]

\* the generator answers with a complete scaffold, or with an HTTP error
GenResponses ==
  {AiResponse("ok", "choices", "object", ScaffoldKeys),
   AiResponse("error", "none", "none", {})}

NextGen ==
  \/ \E r \in GenReqs, u \in Users, body \in GenBodies :
       GenerateScaffold_Check(r, u, body)
  \/ /\ nextId < MaxIdGen
     /\ \E r \in GenReqs, response \in GenResponses :
          GenerateScaffold_Insert(r, response)
  \/ \E r \in GenReqs : GenerateScaffold_Count(r)

SpecGen == InitGen /\ [][NextGen]_vars

\* ---------------------------------------------------------- SpecScaffold

\* number of requests of SpecScaffold, and the cap on its fresh-id counter
NScaffold == 1
MaxIdScaffold == 3

\* Every kind of answer of the generator: an HTTP error, a body without
\* choices, a content that does not parse, the content null, and objects
\* that hold all, some or none of the keys.
ScaffoldResponses ==
  {AiResponse("error", "none", "none", {}),
   AiResponse("ok", "none", "none", {}),
   AiResponse("ok", "choices", "unparseable", {}),
   AiResponse("ok", "choices", "null", {})}
  \cup {AiResponse("ok", "choices", "object", keys) :
          keys \in {{}, {"projectStructure"},
                    ScaffoldKeys \ {"dependencies", "environmentVariables"},
                    ScaffoldKeys}}

ScaffoldBodies ==
  [appIdea : {"a todo app"}, frontendStack : {"nextjs", "angular", "cobol"},
   backendStack : {"", "supabase"}]

NextScaffold ==
  \/ \E r \in 1..NScaffold, u \in Users, body \in ScaffoldBodies :
       GenerateScaffold_Check(r, u, body)
  \/ /\ nextId < MaxIdScaffold
     /\ \E r \in 1..NScaffold, response \in ScaffoldResponses :
          GenerateScaffold_Insert(r, response)
  \/ \E r \in 1..NScaffold : GenerateScaffold_Count(r)

SpecScaffold == InitGen /\ [][NextScaffold]_vars

\* ------------------------------------------------------------ SpecTeam

TeamIds == {t.id : t \in teams}
MemberIds == {tm.id : tm \in team_members}
Tokens == 1..(nextId - 1)

\* The store after u1, on a paid tier, created team 1: the team, u1's owner
\* row, u1's current team and the log row.  The team's member_limit is one of
\* the given limits (the column is set per team outside these handlers).
TeamCreated(memberLimits) ==
  /\ NoRequests
  /\ \E limit \in memberLimits :
       teams = {[TeamRow(1, <<"a", "b">>, "u1") EXCEPT !.member_limit = limit]}
  /\ team_members = {MemberRow(2, 1, "u1", "owner", "active", NoId)}
  /\ users = [u \in Users |->
                IF u = "u1"
                THEN [UserRow("pro_monthly", "user", TRUE, 0)
                        EXCEPT !.current_team_id = 1]
                ELSE UserRow("free", "user", TRUE, 0)]
  /\ activity_logs = SetToBag({LogRow("u1", 1, "team_created", 1)})
  /\ nextId = 3
  /\ projects = {}
  /\ project_collaborators = {}
  /\ templates = {}
  /\ usage_analytics = EmptyBag
  /\ initial_generations = [u \in Users |-> 0]

\* Team creation by a subscriber, a free user and a suspended one, with names
\* that differ in case and spacing only, and slugs given outright.
Names ==
  {<<>>, <<"a">>, <<" ", "a">>, <<"a", "a">>, <<"A", "a">>, <<"a", "A", " ">>}
ExplicitSlugs == {<<>>, <<"a", "a">>}

InitSlug ==
  /\ EmptyStore
  /\ NoRequests
  /\ users = [u \in Users |->
                IF u = "u1" THEN UserRow("pro_monthly", "user", TRUE, 0)
                ELSE IF u = "u2" THEN UserRow("free", "user", TRUE, 0)
                ELSE UserRow("pro_monthly", "user", FALSE, 0)]
  /\ initial_generations = [u \in Users |-> 0]

NextSlug ==
  \/ \E c \in CtReqs, u \in Users, name \in Names, slug \in ExplicitSlugs :
       CreateTeam_Check(c, u, name, slug)
  \/ \E c \in CtReqs : CreateTeam_Slug(c)
  \/ \E c \in CtReqs : nextId < MaxIdSlug /\ CreateTeam_Insert(c)
  \/ \E c \in CtReqs, outcome \in {"inserted", "error"} :
       CreateTeam_Owner(c, outcome)
  \/ \E c \in CtReqs : CreateTeam_Finish(c)

SpecSlug == InitSlug /\ [][NextSlug]_vars

\* Projects of a team's owner u1, its member u2 and an outsider u3 whose
\* account is in use or deactivated (its auth.users session stays valid).
ProjectIds == 3..MaxIdProj

InitProj ==
  /\ NoRequests
  /\ teams = {TeamRow(1, <<"a", "b">>, "u1")}
  /\ team_members = {MemberRow(2, 1, "u1", "owner", "active", NoId),
                     MemberRow(3, 1, "u2", "member", "active", NoId)}
  /\ \E active \in BOOLEAN :
       users = [u \in Users |->
                  IF u = "u3" THEN UserRow("free", "user", active, 0)
                  ELSE [UserRow(IF u = "u1" THEN "pro_monthly" ELSE "free",
                                "user", TRUE, 0)
                          EXCEPT !.current_team_id = 1]]
  /\ activity_logs = SetToBag({LogRow("u1", 1, "team_created", 1),
                               LogRow("u2", 1, "invitation_accepted", NoId)})
  /\ nextId = 4
  /\ projects = {}
  /\ project_collaborators = {}
  /\ templates = {}
  /\ usage_analytics = EmptyBag
  /\ initial_generations = [u \in Users |-> 0]

NextProj ==
  \/ \E u \in Users, body \in ProjectBodies :
       nextId < MaxIdProj /\ CreateProject(u, body)
  \/ \E u \in Users, id \in ProjectIds \cup {NoId} : GetProjects(u, id)
  \/ \E u \in Users, id \in ProjectIds, patch \in ProjectPatches :
       UpdateProject(u, id, patch)
  \/ \E u \in Users, id \in ProjectIds : DeleteProject(u, id)
  \/ \E u \in Users, id \in ProjectIds, c \in Users,
        role \in {"editor", "viewer"}, status \in {"pending", "active"} :
       nextId < MaxIdProj /\ ManageCollaborators(u, id, c, role, status)

SpecProj == InitProj /\ [][NextProj]_vars

\* Templates of the same three users.
TemplateIds == 3..MaxIdTmpl

\* how many rows of activity_logs the template reads have written
ReadsLogged ==
  BagCardinality([l \in {x \in DOMAIN activity_logs :
                           x.action \in {"template_viewed",
                                          "template_search"}}
                    |-> activity_logs[l]])

NextTmpl ==
  \/ \E u \in Users, body \in TemplateBodies :
       CreateTemplate(u, body)
  \/ \E caller \in Callers, id \in TemplateIds, eq_null \in EqNullReadings,
        created_by \in CreatedByReadings :
       /\ ReadsLogged < MaxReadsLogged
       /\ \A t \in templates : t.view_count < MaxViews
       /\ GetTemplate(caller, id, eq_null, created_by)
  \/ \E caller \in Callers, visibility \in VisibilityParams,
        eq_null \in EqNullReadings :
       /\ ReadsLogged < MaxReadsLogged
       /\ SearchTemplates(caller, visibility, eq_null)
  \/ \E u \in Users, id \in TemplateIds, patch \in TemplatePatches :
       UpdateTemplate(u, id, patch)
  \/ \E u \in Users, id \in TemplateIds : DeleteTemplate(u, id)

SpecTmpl == InitProj /\ [][NextTmpl]_vars

\* Membership management of one team by its owner u1, one invitee u2 and an
\* outsider u3; the team is full with its owner, or has room for the invitee.
InitTeam == TeamCreated({1, DefaultMemberLimit})

NextTeam ==
  \/ \E u \in Users, t \in TeamIds, email \in Emails \ {"u3"},
        role \in InviteRoles :
       InviteMember(u, t, email, role)
  \/ \E a \in AccReqs, u \in Users, token \in Tokens :
       AcceptInvitation_Lookup(a, u, token)
  \/ \E a \in AccReqs : AcceptInvitation_Activate(a)
  \/ \E a \in AccReqs : AcceptInvitation_Finish(a)
  \/ \E u \in Users, t \in TeamIds, m \in MemberIds, patch \in MemberPatches :
       UpdateMember(u, t, m, patch)
  \/ \E u \in Users, t \in TeamIds, m \in MemberIds : RemoveMember(u, t, m)

SpecTeam == InitTeam /\ [][NextTeam]_vars

\* ---------------------------------------------------------- SpecTwoTeams

\* cap on the fresh-id counter of SpecTwoTeams
MaxIdTwoTeams == 6

\* Two teams, team 1 of u1 and team 3 of u3, and u2 who belongs to neither;
\* invitations, and updates whose body promotes, activates or names a team.
TwoTeamsPatches ==
  {patch \in MemberPatches : patch.role = "admin" \/ patch.status = "active"}
    \cup MemberMoves

InitTwoTeams ==
  /\ NoRequests
  /\ teams = {TeamRow(1, <<"a">>, "u1"), TeamRow(3, <<"b">>, "u3")}
  /\ team_members = {MemberRow(2, 1, "u1", "owner", "active", NoId),
                     MemberRow(4, 3, "u3", "owner", "active", NoId)}
  /\ users = [u \in Users |->
                IF u = "u2" THEN UserRow("free", "user", TRUE, 0)
                ELSE [UserRow("pro_monthly", "user", TRUE, 0)
                        EXCEPT !.current_team_id = IF u = "u1" THEN 1 ELSE 3]]
  /\ activity_logs = SetToBag({LogRow("u1", 1, "team_created", 1),
                               LogRow("u3", 3, "team_created", 3)})
  /\ nextId = 5
  /\ projects = {}
  /\ project_collaborators = {}
  /\ templates = {}
  /\ usage_analytics = EmptyBag
  /\ initial_generations = [u \in Users |-> 0]

NextTwoTeams ==
  \/ \E u \in Users, t \in TeamIds, email \in Users, role \in InviteRoles :
       nextId < MaxIdTwoTeams /\ InviteMember(u, t, email, role)
  \/ \E u \in Users, t \in TeamIds, m \in MemberIds,
        patch \in TwoTeamsPatches :
       UpdateMember(u, t, m, patch)

SpecTwoTeams == InitTwoTeams /\ [][NextTwoTeams]_vars

\* ---------------------------------------------------------- SpecAccept

\* Invitations of u2 and u3 and their concurrent acceptance; the team has
\* room for one invitation or for both.
InitAccept == TeamCreated({TightLimit, DefaultMemberLimit})

NextAccept ==
  \/ \E u \in Users, t \in TeamIds, email \in Emails, role \in InviteRoles :
       InviteMember(u, t, email, role)
  \/ \E a \in AccReqs, u \in Users, token \in Tokens :
       AcceptInvitation_Lookup(a, u, token)
  \/ \E a \in AccReqs : AcceptInvitation_Activate(a)
  \/ \E a \in AccReqs : AcceptInvitation_Finish(a)

SpecAccept == InitAccept /\ [][NextAccept]_vars

\* -------------------------------------------------------- properties

GenBy(u) == {r \in GenReqs : gen[r].user = u}

GenWith(u, status) == {r \in GenBy(u) : gen[r].result = status}

\* the generations user u had left when the requests started
RemainingQuota(u) ==
  Max(0, userLimit(users[u].subscription_tier) - initial_generations[u])

\* C1: for a user with K generations left, N > K concurrent GenerateScaffold
\* requests give exactly K successes and N-K quota-exceeded responses, and in
\* no interleaving more than K successes.
C1_QuotaAtomicity ==
  \A u \in Users :
    (HasLimit(users[u].subscription_tier)
       /\ userLimit(users[u].subscription_tier) # -1) =>
      /\ Cardinality(GenWith(u, 200)) <= RemainingQuota(u)
      /\ (/\ GenBy(u) = GenReqs
          /\ \A r \in GenReqs : gen[r].result \in {200, 429}
          /\ NGen > RemainingQuota(u))
         => /\ Cardinality(GenWith(u, 200)) = RemainingQuota(u)
            /\ Cardinality(GenWith(u, 429)) = NGen - RemainingQuota(u)

ActiveOwners(t) ==
  {tm \in team_members :
     tm.team_id = t /\ tm.role = "owner" /\ tm.status = "active"}

\* C2: every team has, in every reachable state, exactly one team_members row
\* with role owner and status active.
C2_ExactlyOneOwner ==
  \A t \in TeamIds : Cardinality(ActiveOwners(t)) = 1

\* the active membership of a caller and the row a call names
CallerRows(u, t) == {tm \in Membership(t, u) : tm.status = "active"}
TargetRows(t, m) == {tm \in team_members : tm.id = m /\ tm.team_id = t}

\* C5: UpdateMember on an owner's row by an active admin of the team is
\* answered Forbidden and leaves the rows as they are; issued by an active
\* owner of the team it succeeds and applies the patch.
C5_OwnerProtection ==
  \A u \in Users, t \in TeamIds, m \in MemberIds, patch \in MemberPatches :
    (users[u].is_active /\ \E target \in TargetRows(t, m) : target.role = "owner")
    => /\ (\E caller \in CallerRows(u, t) : caller.role = "admin")
            => /\ handleUpdateMember(u, t, m, patch).resp.status = 403
               /\ handleUpdateMember(u, t, m, patch).rows = team_members
       /\ (\E caller \in CallerRows(u, t) : caller.role = "owner")
            => /\ handleUpdateMember(u, t, m, patch).resp.status = 200
               /\ \A target \in TargetRows(t, m) :
                    ApplyMemberPatch(target, patch)
                      \in handleUpdateMember(u, t, m, patch).rows

\* an admin's call on the owner's row was refused while the team has an active
\* admin and an owner row
C5_Witness ==
  /\ resp.op = "UpdateMember"
  /\ resp.error = "Only team owners can modify owner permissions"
  /\ \E tm \in team_members : tm.role = "admin" /\ tm.status = "active"
  /\ \E tm \in team_members : tm.role = "owner"

UsedTokens == BagToSet(accepted)

\* C6: once AcceptInvitation has succeeded with a token, no row carries that
\* token, and a later call with it by any active user is answered "not found"
\* at the lookup, before any row is written.
C6_TokenSingleUse ==
  \A token \in UsedTokens :
    /\ \A tm \in team_members : tm.invitation_token # token
    /\ \A u \in Users :
         users[u].is_active => AcceptInvitation_Refusal(u, token).status = 404

\* a second call with a used token was answered
C6_Witness ==
  /\ resp.op = "AcceptInvitation"
  /\ resp.error = "Invalid or expired invitation"
  /\ UsedTokens # {}

ActiveMembers(t) ==
  {tm \in team_members : tm.team_id = t /\ tm.status = "active"}

\* C7: the number of active members of a team never exceeds its member_limit.
C7_MemberLimit ==
  \A t \in TeamIds : Cardinality(ActiveMembers(t)) <= member_limit(t)

\* C8: no two rows of teams carry the same slug.
C8_SlugUnique ==
  \A t1 \in teams, t2 \in teams : t1.slug = t2.slug => t1.id = t2.id

\* a creation was refused at the insert of the team, no insert of an owner
\* row having failed, while the store holds a slug and its first suffixed form
C8_Witness ==
  /\ resp.op = "CreateTeam"
  /\ resp.error = "Failed to create team"
  /\ \E t1 \in teams, t2 \in teams : t2.slug = testSlug(t1.slug, 1)
  /\ \A t \in teams :
       \/ \E tm \in team_members : tm.team_id = t.id
       \/ \E c \in CtReqs : ct[c].team = t.id

\* the view rule as the specification words it
canViewProject(u, p) ==
  \/ p.user_id = u
  \/ /\ p.team_id # NoId
     /\ \E tm \in team_members :
          tm.team_id = p.team_id /\ tm.user_id = u /\ tm.status = "active"
  \/ \E pc \in project_collaborators :
       pc.project_id = p.id /\ pc.user_id = u /\ pc.status = "active"
  \/ p.visibility = "public" /\ p.is_public /\ p.deleted_at = NULL

\* C3: the select policy allows a user to see a project exactly when the user
\* owns it, is an active member of its team, is an active collaborator on it,
\* or it is public and not deleted; and the read handler returns the project
\* to the user exactly then.
C3_ViewDecision ==
  \A u \in Users, p \in projects :
    /\ projects_select_access(u, p) <=> canViewProject(u, p)
    /\ p.id \in handleGetProjects(u, p.id).data <=> canViewProject(u, p)

\* C9: once DeleteProject has succeeded for a project, no list of any user
\* holds it and a read of it by id is answered "not found" for every user.
C9_DeletedNotFound ==
  \A id \in deleted, u \in Users :
    /\ id \notin handleGetProjects(u, NoId).data
    /\ handleGetProjects(u, id).status = 404

\* C10: once DeleteProject has succeeded for a project, its row is still in
\* the table, with deleted_at set.
C10_SoftDeleteOnly ==
  \A id \in deleted :
    \E p \in projects : p.id = id /\ p.deleted_at # NULL

\* what the specification asks of a template returned to somebody other than
\* its creator
TemplateRule(caller, t) ==
  /\ t.is_approved
  /\ t.deleted_at = NULL
  /\ t.visibility = "premium"
       => caller # NULL /\ users[caller].subscription_tier \in PaidTiers
  /\ t.visibility = "team"
       => /\ caller # NULL
          /\ \E tm \in Membership(t.team_id, caller) : tm.status = "active"
  /\ t.visibility # "private"

\* the ids of the templates some GetTemplate or SearchTemplates call of the
\* caller returns in this state
ReturnedTemplates(caller) ==
  UNION ({handleGetTemplate(caller, id, eq_null, created_by).resp.data :
            id \in TemplateIds, eq_null \in EqNullReadings,
            created_by \in CreatedByReadings}
         \cup
         {handleSearchTemplates(caller, visibility, eq_null).resp.data :
            visibility \in VisibilityParams, eq_null \in EqNullReadings})

AtLimit(u) ==
  /\ users[u].subscription_tier \in DOMAIN limits
  /\ limits[users[u].subscription_tier] >= 0
  /\ users[u].monthly_generations >= limits[users[u].subscription_tier]

\* C11: a GenerateScaffold request of a user whose monthly_generations is at
\* or above the limit ends at the check with the quota error that carries the
\* limit and the usage: it does not go on to the generator, and no table,
\* the users row and the projects included, changes.
C11_QuotaExceeded ==
  [][\A r \in GenReqs :
       (gen[r].pc = "idle" /\ gen'[r] # gen[r] /\ AtLimit(gen'[r].user))
         => /\ gen'[r].pc = "done"
            /\ gen'[r].result = 429
            /\ resp' = Response("GenerateScaffold", 429,
                         "Monthly generation limit reached", {},
                         <<limits[users[gen'[r].user].subscription_tier],
                           users[gen'[r].user].monthly_generations>>)
            /\ UNCHANGED storeVars]_vars

\* the free user at 3 of 3 was answered the quota error, and no project exists
C11_Witness ==
  /\ resp.op = "GenerateScaffold"
  /\ resp.status = 429
  /\ resp.detail = <<limits.free, limits.free>>
  /\ \E r \in GenReqs : gen[r].result = 429 /\ AtLimit(gen[r].user)
  /\ projects = {}

\* the requests that went past the limit check to the generator
PassedCheck == {r \in GenReqs : gen[r].pc \in {"generate", "count"}
                                  \/ gen[r].result = 200}

\* C12: a request passes the limit check only when the user's tier has an
\* entry in the table of limits, and that entry is the unlimited sentinel or
\* lies above the usage the check read.
C12_TierResolved ==
  \A r \in PassedCheck :
    /\ HasLimit(users[gen[r].user].subscription_tier)
    /\ \/ userLimit(users[gen[r].user].subscription_tier) = -1
       \/ gen[r].generations < userLimit(users[gen[r].user].subscription_tier)

\* C13: GetTemplate of a private template by somebody who did not create it
\* is answered "not found", and the response is the one the same call gets
\* for an id no template has.
C13_ExistenceHidden ==
  \A caller \in Callers, t \in templates, eq_null \in EqNullReadings,
     created_by \in CreatedByReadings :
    (t.visibility = "private" /\ t.deleted_at = NULL /\ t.created_by # caller)
      => /\ handleGetTemplate(caller, t.id, eq_null, created_by).resp.status
              = 404
         /\ \A id \in TemplateIds \ {row.id : row \in templates} :
              handleGetTemplate(caller, t.id, eq_null, created_by).resp
                = handleGetTemplate(caller, id, eq_null, created_by).resp

\* C14: an UpdateTemplate or DeleteTemplate call on a template that the
\* modification policy denies the caller is answered forbidden or not found,
\* and leaves the templates as they are.
C14_DenialIsError ==
  [][\A u \in Users, id \in TemplateIds, patch \in TemplatePatches :
       (/\ \E t \in templates : t.id = id /\ ~templates_modify_creator(u, t)
        /\ UpdateTemplate(u, id, patch) \/ DeleteTemplate(u, id))
         => /\ resp'.status \in {403, 404}
            /\ templates' = templates]_vars

\* C15: the step that ends a successful AcceptInvitation leaves the accepting
\* user's current_team_id at the invitation's team when it was null before,
\* and as it was when it was set.
C15_FirstTeamWins ==
  [][\A a \in AccReqs :
       (acc[a].pc = "finish" /\ acc'[a].pc = "idle" /\ resp'.status = 200)
         => users'[acc[a].user].current_team_id =
              IF users[acc[a].user].current_team_id = NoId
              THEN acc[a].team_id
              ELSE users[acc[a].user].current_team_id]_vars

\* the rows that are invitations of a named user still to be accepted
NamedInvitations ==
  {tm \in team_members : /\ tm.status = "pending"
                         /\ tm.invitation_token # NoId
                         /\ tm.user_id # NULL}

canModifyProject(u, p) ==
  \/ p.user_id = u
  \/ /\ p.team_id # NoId
     /\ \E tm \in team_members :
          /\ tm.team_id = p.team_id
          /\ tm.user_id = u
          /\ tm.role \in {"owner", "admin"}
          /\ tm.status = "active"
  \/ \E pc \in project_collaborators :
       /\ pc.project_id = p.id
       /\ pc.user_id = u
       /\ pc.role \in {"owner", "editor"}
       /\ pc.status = "active"

\* C17: the modification policy allows a user to update or delete a project
\* exactly when the user owns it, is an active owner or admin of its team, or
\* is an active collaborator on it with role owner or editor; and the
\* ownership check of UpdateProject and DeleteProject lets a user through
\* exactly then.
C17_ModifyDecision ==
  \A u \in Users, p \in projects :
    /\ projects_modify_authorized(u, p) <=> canModifyProject(u, p)
    /\ OwnsProject(u, p.id) <=> canModifyProject(u, p)

\* C18: a CreateProject call inserts rows owned by the caller only, and rows
\* of a team only when the caller is an active member of that team; with the
\* id of any other team in the body it is refused and inserts nothing.
C18_InsertAuthorized ==
  [][\A u \in Users, body \in ProjectBodies :
       CreateProject(u, body)
         => /\ \A p \in projects' \ projects :
                 /\ p.user_id = u
                 /\ p.team_id # NoId
                      => \E tm \in Membership(p.team_id, u) :
                           tm.status = "active"
            /\ (/\ body.team_id # NoId
                /\ ~\E tm \in Membership(body.team_id, u) :
                      tm.status = "active")
                 => projects' = projects /\ resp'.status >= 400]_vars

\* the team_members rows of a team
RowsOf(rows, t) == {tm \in rows : tm.team_id = t}

\* C19: an InviteMember or UpdateMember call leaves the team_members rows of
\* every team as they are, unless the caller has a row in that team with
\* status active and role owner or admin.
C19_AdminOnly ==
  [][\A u \in Users, t \in TeamIds :
       (\/ \E email \in Users, role \in InviteRoles :
             InviteMember(u, t, email, role)
        \/ \E m \in MemberIds, patch \in TwoTeamsPatches :
             UpdateMember(u, t, m, patch))
         => \A team \in TeamIds :
              RowsOf(team_members', team) # RowsOf(team_members, team)
                => IsTeamAdmin(team, u)]_vars

\* C20: the status of a team_members row changes only from pending to active
\* in the step of an AcceptInvitation request that presented the row's token,
\* from active to suspended, from suspended to active, or to removed; and the
\* status of a removed row never changes.
C20_StatusTransitions ==
  [][\A old \in team_members, new \in team_members' :
       (old.id = new.id /\ old.status # new.status)
         => /\ old.status # "removed"
            /\ \/ new.status = "removed"
               \/ old.status = "active" /\ new.status = "suspended"
               \/ old.status = "suspended" /\ new.status = "active"
               \/ /\ old.status = "pending"
                  /\ new.status = "active"
                  /\ \E a \in AccReqs :
                       /\ acc[a].pc = "activate"
                       /\ acc'[a].pc = "finish"
                       /\ acc[a].invitation = old.id
                       /\ acc[a].token = old.invitation_token]_vars

\* a step in which a handler answers success after it changed the store: the
\* one step of a handler that is one action, or the last step of a handler
\* that is split
SuccessfulMutation ==
  /\ resp'.status = 200
  /\ \/ /\ gen' = gen /\ ct' = ct /\ acc' = acc
        /\ <<users, teams, team_members, projects, project_collaborators,
             templates>>' #
           <<users, teams, team_members, projects, project_collaborators,
             templates>>
     \/ \E c \in CtReqs : ct[c].pc = "finish" /\ ct'[c].pc = "idle"
     \/ \E a \in AccReqs : acc[a].pc = "finish" /\ acc'[a].pc = "idle"

\* C21: a handler call that changes the store and answers success adds
\* exactly one row to activity_logs.
C21_OneLogPerMutation ==
  [][SuccessfulMutation
       => BagCardinality(activity_logs') = BagCardinality(activity_logs) + 1]_vars

\* C22: every team either has the owner row of its creator, or belongs to a
\* CreateTeam request that has not returned yet; no team is left without its
\* owner row by a request that failed.
C22_Atomic ==
  \A t \in teams :
    \/ \E tm \in team_members :
         tm.team_id = t.id /\ tm.user_id = t.created_by /\ tm.role = "owner"
    \/ \E c \in CtReqs : ct[c].pc = "owner" /\ ct[c].team = t.id

\* the requests whose call of the generator got an HTTP answer that is ok
Answered == {r \in GenReqs : gen[r].response.http = "ok"}

\* C23: a request whose generator call was answered does not fail at the
\* adapter, and the scaffold it goes on with has every key: the generator's
\* value where its output holds the key, and the default of the stacks else.
C23_GracefulDefaults ==
  \A r \in Answered :
    /\ gen[r].result = 500 => gen[r].frontendStack \notin tech_stack
    /\ gen[r].project # NoId
         => \A key \in ScaffoldKeys :
              /\ gen[r].scaffold[key] # Undefined
              /\ gen[r].scaffold[key] =
                   IF /\ gen[r].response.content = "object"
                      /\ key \in gen[r].response.keys
                   THEN {"ai"}
                   ELSE DefaultValue(key, gen[r].frontendStack,
                                     gen[r].backendStack)

\* C24: an UpdateTemplate call succeeds, and a DeleteTemplate call on a
\* template that is not deleted sets its deleted_at, exactly when the caller
\* is the template's creator, an active owner or admin of its team, or a
\* moderator, admin or super_admin of the platform.
C24_TemplateModifyRule ==
  [][\A u \in Users, t \in templates, patch \in TemplatePatches :
       /\ UpdateTemplate(u, t.id, patch)
            => (resp'.status = 200 <=> templates_modify_creator(u, t))
       /\ (t.deleted_at = NULL /\ DeleteTemplate(u, t.id))
            => ((\A row \in templates' : row.id = t.id => row.deleted_at # NULL)
                  <=> templates_modify_creator(u, t))]_vars


\* C25: no handler mutates for an actor whose account is deactivated: every
\* project and every template of the store belongs to a user whose is_active
\* is true (no handler of these runs changes is_active).
C25_InactiveRejected ==
  /\ \A p \in projects : users[p.user_id].is_active
  /\ \A t \in templates : users[t.created_by].is_active


\* C26: InviteMember by an active owner or admin of the team, for a well-formed
\* email that has no membership row in the team, is answered 200 and adds
\* exactly one row, pending and with a token no other row carries, whether
\* or not the email is registered.
C26_InviteAlwaysPending ==
  [][\A u \in Users, t \in TeamIds, email \in Emails, role \in InviteRoles :
       ( /\ users[u].is_active
         /\ IsTeamAdmin(t, u)
         /\ email # MalformedEmail
         /\ email \in Users => Membership(t, email) = {}
         /\ InviteMember(u, t, email, role) )
       => /\ resp'.status = 200
          /\ \E row \in team_members' \ team_members :
               /\ team_members' = team_members \cup {row}
               /\ row.status = "pending"
               /\ \A tm \in team_members :
                    tm.invitation_token # row.invitation_token]_vars


\* C27: AcceptInvitation with the token of a pending invitation, called by the
\* active user the invitation names, is not refused whenever the team's rows
\* of status 'active' number fewer than its member_limit.
C27_LimitCountsActiveOnly ==
  \A u \in Users, token \in Tokens :
    \A tm \in PendingInvitation(token) :
      ( /\ users[u].is_active
        /\ tm.user_id = u
        /\ Cardinality({row \in team_members :
                          row.team_id = tm.team_id /\ row.status = "active"})
             < member_limit(tm.team_id) )
      => AcceptInvitation_Refusal(u, token) = NoResponse


\* C28: in every interleaving, each user's monthly_generations and
\* projects_generated have grown by exactly the number of that user's
\* GenerateScaffold requests answered 200; requests that failed add nothing.
C28_CountersExact ==
  \A u \in Users :
    /\ users[u].monthly_generations
         = initial_generations[u] + Cardinality(GenWith(u, 200))
    /\ users[u].projects_generated
         = initial_generations[u] + Cardinality(GenWith(u, 200))


\* C29: when two AcceptInvitation calls with the same token run concurrently,
\* at most one of them is answered 200 and at most one 'invitation_accepted'
\* row is written for the invitation: no token is accepted twice, and no
\* user has two 'invitation_accepted' rows for one team (a team invites a
\* user once here).
C29_AcceptedOnce ==
  /\ \A token \in DOMAIN accepted : accepted[token] <= 1
  /\ \A l \in DOMAIN activity_logs :
       l.action = "invitation_accepted" => activity_logs[l] <= 1


\* C30: after any sequence of CreateTeam, AcceptInvitation and UpdateMember,
\* each user's current_team_id is null or names a team in which the user has
\* a team_members row of status 'active', so the membership check of the
\* users trigger would let an update of the row through.
C30_CurrentTeamIsMembership ==
  \A u \in Users : validate_team_ownership(u, users[u])

====
